---- MODULE Spec2Model ----
(***************************************************************************)
(* A model of the supervision helper: the retry wrapper of                 *)
(* services/geminiService.ts (withRetry), the five generation-client       *)
(* methods built on it, and the wizard component's pipeline state with its *)
(* asynchronous handlers (the App component).                              *)
(*                                                                         *)
(* JavaScript values are tagged records: Undefined, Null, Str(s), Num(n).  *)
(* A string is a sequence of tokens; a token is a character or a fixed     *)
(* chunk of text that the code never looks inside.                         *)
(***************************************************************************)
EXTENDS Naturals, Sequences, FiniteSets

VARIABLES
    \* ---- one call of withRetry(fn, maxRetries), geminiService.ts 7-27
    rtPc,          \* "idle" | "calling" | "sleeping" | "resolved" | "rejected"
    rtMax,         \* the maxRetries argument
    rtI,           \* the loop variable i
    rtLastError,   \* the local lastError
    rtSettled,     \* the value the promise resolved with / the error it rejected with
    rtCalls,       \* history: how many times fn() has been invoked
    rtDelays,      \* history: the delays handed to setTimeout, in order
    rtFailures,    \* history: the errors fn() has thrown, in order
    rtValue,       \* history: the value fn() resolved with, NoValue before that
    \* ---- one call of a client method (geminiService.ts 29-243)
    clMethod,      \* the method that is running, "none" between calls
    clCustomKey,   \* its customKey argument
    clEnvKey,      \* process.env.GEMINI_API_KEY
    clRequests,    \* history: the requests handed to ai.models.generateContent
    clResponse,    \* history: the provider's response to the running attempt, NoValue before it
    \* ---- the App component's state (useState hooks, part_000 72-92)
    input, isGenerating, formalRecord, feedback, cardImage, imagePrompt, step,
    selectedStyle, error, hasKey, isEditing, refinementInput, isRefining,
    imageRefinementInput, isRefiningImage,
    \* ---- the asynchronous handler invocations that are suspended at an await
    ops,
    \* ---- history: the last handler step taken, and the pipeline data as it
    \*      was when the only running operation started
    lastEvent, solo,
    \* ---- history: what the awaited client call returned in the last step
    returned

rtVars == <<rtPc, rtMax, rtI, rtLastError, rtSettled, rtCalls, rtDelays, rtFailures, rtValue>>
pipeVars == <<formalRecord, feedback, cardImage, imagePrompt, step>>
uiVars == <<input, isGenerating, selectedStyle, error, hasKey, isEditing,
            refinementInput, isRefining, imageRefinementInput, isRefiningImage>>
appVars == <<pipeVars, uiVars, ops, lastEvent, solo, returned>>
clVars == <<clMethod, clCustomKey, clEnvKey, clRequests, clResponse>>
svcVars == <<rtVars, clVars>>
vars == <<svcVars, appVars>>

----------------------------------------------------------------------------
(* JavaScript values *)

Undefined == [k |-> "undefined"]
Null == [k |-> "null"]
Str(s) == [k |-> "string", s |-> s]
Num(n) == [k |-> "number", n |-> n]
NoValue == [k |-> "none"]

\* JavaScript truthiness of the values the code tests with !x, x || y, x && y, x ? a : b
Truthy(v) ==
    CASE v.k = "undefined" -> FALSE
      [] v.k = "null" -> FALSE
      [] v.k = "string" -> v.s # <<>>
      [] v.k = "number" -> v.n # 0
      [] OTHER -> TRUE

\* a || b
OrElse(a, b) == IF Truthy(a) THEN a ELSE b

\* String.prototype.includes on token sequences: a contiguous occurrence
Includes(s, sub) ==
    \E k \in 0..Len(s) : k + Len(sub) <= Len(s) /\ SubSeq(s, k + 1, k + Len(sub)) = sub

WhiteSpace == {" ", "\n", "\t"}

RECURSIVE TrimStart(_)
TrimStart(s) ==
    IF s # <<>> /\ Head(s) \in WhiteSpace THEN TrimStart(Tail(s)) ELSE s

RECURSIVE TrimEnd(_)
TrimEnd(s) ==
    IF s # <<>> /\ s[Len(s)] \in WhiteSpace THEN TrimEnd(SubSeq(s, 1, Len(s) - 1)) ELSE s

\* a trim that strips nothing, to tell from Trim
TrimNothing(s) == s
\* String.prototype.trim
Trim(s) == TrimEnd(TrimStart(s))

\* `${v}` in a template literal
Template(v) ==
    CASE v.k = "string" -> v.s
      [] v.k = "undefined" -> <<"undefined">>
      [] v.k = "null" -> <<"null">>
      [] OTHER -> <<"[object Object]">>

----------------------------------------------------------------------------
(* The errors the provider call can throw *)

T429 == <<"4", "2", "9">>
TResourceExhausted == <<"RESOURCE_EXHAUSTED">>
TNotFound == <<"Requested entity was not found">>

Err(status, code, message) ==
    [k |-> "object", status |-> status, code |-> code, message |-> message]

ErrStatus429 == Err(Num(429), Undefined, Str(<<"Too Many Requests">>))
ErrCode429 == Err(Undefined, Num(429), Undefined)
ErrMessage429 == Err(Undefined, Undefined, Str(<<"got status: ">> \o T429 \o <<" ">>))
ErrExhausted == Err(Undefined, Undefined, Str(<<"{">> \o TResourceExhausted \o <<"}">>))
ErrServer == Err(Num(500), Undefined, Str(<<"Internal error">>))
ErrNotFound == Err(Num(404), Undefined, Str(TNotFound \o <<".">>))
ErrBare == Err(Undefined, Undefined, Undefined)
\* near misses and mixed signals: the digits inside a longer number, a numeric
\* code beside another status, the status as text, the word in lower case
ErrEmbedded429 == Err(Undefined, Undefined, Str(<<"id ", "1">> \o T429 \o <<"0">>))
ErrCode429Status500 == Err(Num(500), Num(429), Str(<<"Internal error">>))
ErrStatusText429 == Err(Str(T429), Undefined, Str(<<"Too Many Requests">>))
ErrLowerExhausted == Err(Undefined, Undefined, Str(<<"resource_exhausted">>))

RateLimitErrors == {ErrStatus429, ErrCode429, ErrMessage429, ErrExhausted,
                    ErrEmbedded429, ErrCode429Status500}
OtherErrors == {ErrServer, ErrNotFound, ErrBare, Undefined, Null,
                ErrStatusText429, ErrLowerExhausted}
Errors == RateLimitErrors \cup OtherErrors

\* error?.f : undefined when error is null or undefined
OptField(e, f) == IF e.k \in {"undefined", "null"} THEN Undefined ELSE e[f]

\* error?.message?.includes(sub), as a truth value
MessageIncludes(e, sub) ==
    LET m == OptField(e, "message")
    IN  m.k = "string" /\ Includes(m.s, sub)

----------------------------------------------------------------------------
(* withRetry, geminiService.ts 7-27 *)

DefaultMaxRetries == 3
BackoffBaseMs == 2000
JitterRangeMs == 1000

\* a classification by the status alone, to tell from IsRateLimit
IsRateLimitStatusOnly(e) == OptField(e, "status") = Num(429)

\* line 15
IsRateLimit(e) ==
    \/ OptField(e, "status") = Num(429)
    \/ OptField(e, "code") = Num(429)
    \/ MessageIncludes(e, T429)
    \/ MessageIncludes(e, TResourceExhausted)

\* line 17 without its first and without its second conjunct, to tell from ShouldRetry
ShouldRetryAnyError(e, i, maxRetries) == i < maxRetries - 1
ShouldRetryNoLimit(e, i, maxRetries) == IsRateLimit(e)
\* line 17
ShouldRetry(e, i, maxRetries) == IsRateLimit(e) /\ i < maxRetries - 1

RECURSIVE Pow2(_)
Pow2(n) == IF n = 0 THEN 1 ELSE 2 * Pow2(n - 1)

\* a delay that does not grow, to tell from BackoffDelay
BackoffDelayNoExponent(i, jitter) == BackoffBaseMs + jitter
\* line 18: Math.pow(2, i) * 2000 + Math.random() * 1000, with jitter = Math.random() * 1000
BackoffDelay(i, jitter) == Pow2(i) * BackoffBaseMs + jitter

\* the values Math.random() * 1000 is sampled at: 0 <= jitter < 1000
JitterSamples == {0, 500, JitterRangeMs - 1}

MaxRetriesBound == 3
RetryResults == {Undefined, Str(<<>>), Str(<<"ok">>)}

\* withRetry(fn, m) is called: lines 8-9; with m <= 0 the loop body never runs
\* and line 26 throws the still-undefined lastError
RetryStart(m) ==
    /\ rtPc = "idle"
    /\ rtMax' = m
    /\ rtI' = 0
    /\ rtLastError' = Undefined
    /\ rtDelays' = <<>>
    /\ rtFailures' = <<>>
    /\ rtValue' = NoValue
    /\ IF 0 < m
       THEN rtPc' = "calling" /\ rtCalls' = 1 /\ rtSettled' = Undefined
       ELSE rtPc' = "rejected" /\ rtCalls' = 0 /\ rtSettled' = Undefined
    /\ UNCHANGED appVars

\* a wrapper that calls fn again after it resolved, to tell from RetryFnResolves
RetryFnResolvesCallsAgain(v) ==
    /\ rtPc = "calling"
    /\ rtValue' = v
    /\ rtCalls' = rtCalls + 1
    /\ UNCHANGED <<rtPc, rtSettled, rtMax, rtI, rtLastError, rtDelays, rtFailures>>
    /\ UNCHANGED appVars

\* line 11: fn() resolves with v
RetryFnResolves(v) ==
    /\ rtPc = "calling"
    /\ rtPc' = "resolved"
    /\ rtSettled' = v
    /\ rtValue' = v
    /\ UNCHANGED <<rtMax, rtI, rtLastError, rtCalls, rtDelays, rtFailures>>
    /\ UNCHANGED appVars

\* a wrapper that waits before it rethrows as well, to tell from RetryFnRejects
RetryFnRejectsDelaysFirst(e, jitter) ==
    /\ rtPc = "calling"
    /\ rtLastError' = e
    /\ rtFailures' = Append(rtFailures, e)
    /\ rtDelays' = Append(rtDelays, BackoffDelay(rtI, jitter))
    /\ IF ShouldRetry(e, rtI, rtMax)
       THEN rtPc' = "sleeping" /\ UNCHANGED rtSettled
       ELSE rtPc' = "rejected" /\ rtSettled' = e
    /\ UNCHANGED <<rtMax, rtI, rtCalls, rtValue>>
    /\ UNCHANGED appVars

\* lines 12-23: fn() rejects with e
RetryFnRejects(e, jitter) ==
    /\ rtPc = "calling"
    /\ rtLastError' = e
    /\ rtFailures' = Append(rtFailures, e)
    /\ IF ShouldRetry(e, rtI, rtMax)
       THEN /\ rtPc' = "sleeping"
            /\ rtDelays' = Append(rtDelays, BackoffDelay(rtI, jitter))
            /\ UNCHANGED rtSettled
       ELSE /\ rtPc' = "rejected"
            /\ rtSettled' = e
            /\ UNCHANGED rtDelays
    /\ UNCHANGED <<rtMax, rtI, rtCalls, rtValue>>
    /\ UNCHANGED appVars

\* a timer whose callback never resumes the loop, to tell from RetryTimerFires
RetryTimerFiresLost ==
    /\ rtPc = "sleeping"
    /\ UNCHANGED rtVars
    /\ UNCHANGED appVars

\* lines 20-21, 9, 11: the timer fires, continue, i++, and either fn() again or
\* (loop exhausted) line 26
RetryTimerFires ==
    /\ rtPc = "sleeping"
    /\ rtI' = rtI + 1
    /\ IF rtI + 1 < rtMax
       THEN rtPc' = "calling" /\ rtCalls' = rtCalls + 1 /\ UNCHANGED rtSettled
       ELSE rtPc' = "rejected" /\ rtSettled' = rtLastError /\ UNCHANGED rtCalls
    /\ UNCHANGED <<rtMax, rtLastError, rtDelays, rtFailures, rtValue>>
    /\ UNCHANGED appVars

\* the settled promise is consumed; the wrapper can be called again
RetryReturn ==
    /\ rtPc \in {"resolved", "rejected"}
    /\ rtPc' = "idle"
    /\ rtMax' = DefaultMaxRetries
    /\ rtI' = 0
    /\ rtLastError' = Undefined
    /\ rtSettled' = Undefined
    /\ rtCalls' = 0
    /\ rtDelays' = <<>>
    /\ rtFailures' = <<>>
    /\ rtValue' = NoValue
    /\ UNCHANGED appVars

RetryInit ==
    /\ rtPc = "idle"
    /\ rtMax = DefaultMaxRetries
    /\ rtI = 0
    /\ rtLastError = Undefined
    /\ rtSettled = Undefined
    /\ rtCalls = 0
    /\ rtDelays = <<>>
    /\ rtFailures = <<>>
    /\ rtValue = NoValue

----------------------------------------------------------------------------
(* The generation client, geminiService.ts 29-243: what each method makes  *)
(* of the provider's response                                              *)

\* response.text of a plain-text request
TextResponses == {Undefined, Str(<<"text">>)}
\* response.text of the request for a refined image prompt: none, empty, a prompt
PromptResponses == TextResponses \cup {Str(<<>>)}

\* JSON.parse on a token sequence: an object literal "{" k ":" v "," ... "}"
JsonBody(s) == SubSeq(s, 2, Len(s) - 1)
JsonWellFormed(s) ==
    /\ Len(s) >= 2
    /\ s[1] = "{"
    /\ s[Len(s)] = "}"
    /\ \/ Len(s) = 2
       \/ /\ (Len(s) - 2) % 4 = 3
          /\ \A j \in 1..(Len(s) - 2) :
                /\ (j % 4 = 2 => JsonBody(s)[j] = ":")
                /\ (j % 4 = 0 => JsonBody(s)[j] = ",")
                /\ (j % 2 = 1 => JsonBody(s)[j] \notin {"{", "}", ":", ","})

ObjectTokens == {"{light,center,serif}"}
JsonValue(tok) == IF tok \in ObjectTokens THEN [k |-> "object", json |-> tok] ELSE Str(<<tok>>)

\* data.key of the parsed object: the last occurrence of the key wins
JsonField(s, key) ==
    LET b == JsonBody(s)
        at == {j \in 1..Len(b) : j % 4 = 1 /\ b[j] = key}
    IN  IF at = {} THEN Undefined
        ELSE JsonValue(b[(CHOOSE j \in at : \A m \in at : m <= j) + 2])

\* the SyntaxError JSON.parse throws
ErrSyntax == Err(Undefined, Undefined, Str(<<"Unexpected token">>))

FullPayload ==
    Str(<<"{", "feedbackCard", ":", "A", ",", "healingSentence", ":", "B", ",",
          "theme", ":", "calm dawn", ",", "designConfig", ":", "{light,center,serif}", "}">>)
GarbagePayload == Str(<<"Sorry", ",", "I cannot">>)
\* response.text of the schema-mode request
FeedbackPayloads == {Undefined, FullPayload, GarbagePayload}

\* geminiService.ts 142: response.text || "{}"
PayloadText(text) == OrElse(text, Str(<<"{", "}">>)).s

\* a result whose fullText has no blank line, to tell from FeedbackOfPayload
FeedbackOfPayloadNoBlankLine(s) ==
    [k |-> "object",
     feedbackCard |-> JsonField(s, "feedbackCard"),
     healingSentence |-> JsonField(s, "healingSentence"),
     theme |-> JsonField(s, "theme"),
     designConfig |-> JsonField(s, "designConfig"),
     fullText |-> Str(Template(JsonField(s, "feedbackCard")) \o <<"\n">>
                      \o Template(JsonField(s, "healingSentence")))]

\* geminiService.ts 143-146: { ...data, fullText: `${data.feedbackCard}\n\n${data.healingSentence}` }
FeedbackOfPayload(s) ==
    [k |-> "object",
     feedbackCard |-> JsonField(s, "feedbackCard"),
     healingSentence |-> JsonField(s, "healingSentence"),
     theme |-> JsonField(s, "theme"),
     designConfig |-> JsonField(s, "designConfig"),
     fullText |-> Str(Template(JsonField(s, "feedbackCard")) \o <<"\n", "\n">>
                      \o Template(JsonField(s, "healingSentence")))]

\* geminiService.ts 150-161: the style table (each template is one token)
IMAGE_STYLES ==
    [auto |-> <<"A unique, artistic illustration.">>,
     cute_animal |-> <<"A cute and warm illustration.">>,
     warm_book |-> <<"A warm, healing illustration, picture book style.">>,
     nature_organic |-> <<"Style: Soft painterly edges, ink wash.">>,
     frieren_fantasy |-> <<"A beautiful elf female mage, Sousou no Frieren style.">>,
     professional_calm |-> <<"Professional, minimalist illustration.">>,
     starry_dream |-> <<"A dreamlike illustration of a vast galaxy.">>,
     oil_texture |-> <<"A rich, textured oil painting.">>,
     minimalist_line |-> <<"Minimalist line art on textured cream background.">>,
     ghibli_fresh |-> <<"Studio Ghibli style.">>]

NoTextSuffix == <<" ABSOLUTELY NO TEXT, NO LETTERS, NO CHARACTERS, NO WORDS IN THE IMAGE.">>

\* geminiService.ts 166-175: the prompt generateCardImage sends
FinalPrompt(theme, styleKey, rawPrompt) ==
    IF Truthy(rawPrompt)
    THEN Template(rawPrompt) \o <<".">> \o NoTextSuffix
    ELSE IF styleKey = "auto"
         THEN IMAGE_STYLES[styleKey] \o <<" The theme is: ">> \o Template(theme)
                \o <<". Create a visual metaphor for this theme.">> \o NoTextSuffix
         ELSE IMAGE_STYLES[styleKey] \o <<" Theme: ">> \o Template(theme) \o <<".">> \o NoTextSuffix

\* the inline image data of the first candidate's parts, or none
NoInlineData == Undefined
ImageResponses == {NoInlineData, Str(<<"iVBORw0">>)}

\* geminiService.ts 194-199
CardImageOf(inline) ==
    IF inline.k = "string" THEN Str(<<"data:image/png;base64,">> \o inline.s) ELSE Null

----------------------------------------------------------------------------
(* One call of a client method: withRetry around an async function that    *)
(* builds the SDK client, awaits one generateContent request and extracts  *)
(* the result, geminiService.ts 29-243                                     *)

Methods == {"generateFormalRecord", "generateFeedbackSummary", "generateCardImage",
            "refineContent", "refineImagePrompt"}
\* customKey as the callers pass it, and process.env.GEMINI_API_KEY
CustomKeys == {Undefined, Str(<<>>), Str(<<"user-key">>)}
EnvKeys == {Undefined, Str(<<>>), Str(<<"env-key">>)}
\* the errors generateContent is made to reject with
ProviderErrors == {ErrStatus429, ErrExhausted, ErrServer}

\* geminiService.ts 3-5: apiKey: customKey || process.env.GEMINI_API_KEY || ""
\* a resolution in which the process default wins, to tell from GetAI
GetAIEnvFirst(customKey, envKey) == OrElse(envKey, OrElse(customKey, Str(<<>>)))

GetAI(customKey, envKey) == OrElse(customKey, OrElse(envKey, Str(<<>>)))

\* one generateContent request, with the key of the SDK client it is made on
Request(method, apiKey) == [method |-> method, apiKey |-> apiKey]

\* response.text of the schema-mode request: payloads that follow the schema
\* with several card texts and sentences, the empty object, text that is no
\* JSON, and no text
CardTexts == {"A", "You did well"}
SentenceTexts == {"B", "Rest."}
Payload(a, b) ==
    Str(<<"{", "feedbackCard", ":", a, ",", "healingSentence", ":", b, ",",
          "theme", ":", "calm dawn", ",", "designConfig", ":", "{light,center,serif}", "}">>)
EmptyObjectPayload == Str(<<"{", "}">>)
QuotaTextPayload == Str(<<"Error ">> \o T429)
SchemaResponses ==
    FeedbackPayloads \cup {Payload(a, b) : a \in CardTexts, b \in SentenceTexts}
        \cup {EmptyObjectPayload, QuotaTextPayload}

\* the SyntaxError of JSON.parse(text): its message is the engine's, with the
\* offending text quoted in it (current V8) or without it
SyntaxErrorsOf(text) ==
    {ErrSyntax,
     Err(Undefined, Undefined, Str(<<"Unexpected token, ">> \o text.s \o <<" is not valid JSON">>))}

\* what generateContent can resolve with, reduced to the part the method reads:
\* response.text, or the inline data of the first candidate
ResponsesOf(method) ==
    CASE method = "generateFeedbackSummary" -> SchemaResponses
      [] method = "generateCardImage" -> ImageResponses
      [] OTHER -> TextResponses

\* a JSON.parse that never throws, to tell from ClThrows
ClThrowsNever(method, resp) == FALSE

\* geminiService.ts 142: JSON.parse throws on text that is no JSON
ClThrows(method, resp) ==
    method = "generateFeedbackSummary" /\ ~JsonWellFormed(PayloadText(resp))

\* the value the async function returns: 83, 143-146, 194-199, 222, 242
ClResult(method, resp) ==
    CASE method = "generateFeedbackSummary" -> FeedbackOfPayload(PayloadText(resp))
      [] method = "generateCardImage" -> CardImageOf(resp)
      [] OTHER -> resp

ClInit ==
    /\ clMethod = "none"
    /\ clCustomKey = Undefined
    /\ clEnvKey = Undefined
    /\ clRequests = <<>>
    /\ clResponse = NoValue

\* a method whose function makes two requests, to tell from ClCall
ClCallTwoRequests(method, customKey) ==
    /\ clMethod = "none"
    /\ RetryStart(DefaultMaxRetries)
    /\ clMethod' = method
    /\ clCustomKey' = customKey
    /\ clRequests' = <<Request(method, GetAI(customKey, clEnvKey)),
                       Request(method, GetAI(customKey, clEnvKey))>>
    /\ clResponse' = NoValue
    /\ UNCHANGED clEnvKey

\* a method is called: withRetry(fn) with the default maxRetries runs fn, which
\* runs up to its await: getAI(customKey), then the request
ClCall(method, customKey) ==
    /\ clMethod = "none"
    /\ RetryStart(DefaultMaxRetries)
    /\ clMethod' = method
    /\ clCustomKey' = customKey
    /\ clRequests' = <<Request(method, GetAI(customKey, clEnvKey))>>
    /\ clResponse' = NoValue
    /\ UNCHANGED clEnvKey

\* generateContent resolves: fn returns its result, or throws out of JSON.parse
ClProviderResolves(resp, jitter) ==
    /\ clMethod # "none"
    /\ resp \in ResponsesOf(clMethod)
    /\ IF ClThrows(clMethod, resp)
       THEN \E e \in SyntaxErrorsOf(resp) : RetryFnRejects(e, jitter)
       ELSE RetryFnResolves(ClResult(clMethod, resp))
    /\ clResponse' = resp
    /\ UNCHANGED <<clMethod, clCustomKey, clEnvKey, clRequests>>

\* generateContent rejects
ClProviderRejects(e, jitter) ==
    /\ clMethod # "none"
    /\ RetryFnRejects(e, jitter)
    /\ UNCHANGED clVars

\* the backoff timer fires: when the loop goes on, fn runs again up to its await
ClTimerFires ==
    /\ clMethod # "none"
    /\ RetryTimerFires
    /\ clRequests' = IF rtPc' = "calling"
                     THEN Append(clRequests, Request(clMethod, GetAI(clCustomKey, clEnvKey)))
                     ELSE clRequests
    /\ clResponse' = IF rtPc' = "calling" THEN NoValue ELSE clResponse
    /\ UNCHANGED <<clMethod, clCustomKey, clEnvKey>>

\* the caller takes the settled promise
ClReturn ==
    /\ clMethod # "none"
    /\ RetryReturn
    /\ clMethod' = "none"
    /\ clCustomKey' = Undefined
    /\ clRequests' = <<>>
    /\ clResponse' = NoValue
    /\ UNCHANGED clEnvKey

\* the environment of the process is given another GEMINI_API_KEY
ClSetEnvKey(k) ==
    /\ k # clEnvKey
    /\ clEnvKey' = k
    /\ UNCHANGED <<rtVars, appVars, clMethod, clCustomKey, clRequests, clResponse>>

----------------------------------------------------------------------------
(* The App component, part_000 71-287 *)

MaxPending == 2
Slots == 1..MaxPending

Steps == {"initial", "record", "feedback", "visual"}
\* what the user types: notes and instructions, and blank text
InputTexts == {Str(<<" ", "notes", " ">>)}
InstructionTexts == {Str(<<"warmer">>)}
BlankTexts == {Str(<<" ", "\n">>)}
\* the errors the client calls of the page are made to reject with; the
\* provider's not-found error, which leaves the key marked as not connected for
\* the rest of the session, has a specification of its own (SpecAuth)
AppErrors == {ErrServer, ErrExhausted}

\* the messages of setError, one token each
MsgKeyExpired == Str(<<"API Key expired or not set, reconnect">>)
MsgQuota == Str(<<"API quota exhausted">>)
MsgRecordFailed == Str(<<"record generation failed">>)
MsgRefineFailed == Str(<<"refinement failed">>)
MsgImageRefineFailed == Str(<<"image prompt refinement failed">>)
MsgFeedbackFailed == Str(<<"feedback generation failed">>)
MsgVisualFailed == Str(<<"visual card generation failed">>)
MsgDownloadFailed == Str(<<"card download failed">>)

\* a handler invocation suspended at an await: the client call it waits for
\* (kind, and phase for the handler with two calls), the argument of that call,
\* and the values of step and selectedStyle its closure captured where the code
\* after the await reads them
Op(kind, phase, capStep, capStyle, arg) ==
    [kind |-> kind, phase |-> phase, capStep |-> capStep, capStyle |-> capStyle, arg |-> arg]

ClientKinds == {"generateRecord", "refine", "refineImage", "goToFeedback", "goToVisual"}

\* the suspended invocations, oldest first
Pending == 1..Len(ops)
NewSlot == Len(ops) + 1
Remove(seq, s) == SubSeq(seq, 1, s - 1) \o SubSeq(seq, s + 1, Len(seq))

\* history: the handler step taken last (phase: which await of the handler settled)
Event(op, what, phase) == [op |-> op, what |-> what, phase |-> phase]
NoSolo == [slot |-> 0, snap |-> <<>>]
SoloOf(s) == [slot |-> s, snap |-> pipeVars]
KeepSolo(s) == IF solo.slot = s THEN solo ELSE NoSolo

AppInit ==
    /\ input = Str(<<>>)
    /\ isGenerating = FALSE
    /\ formalRecord = Str(<<>>)
    /\ feedback = Null
    /\ cardImage = Null
    /\ imagePrompt = Null
    /\ step = "initial"
    /\ selectedStyle = "auto"
    /\ error = Null
    /\ hasKey = TRUE
    /\ isEditing = FALSE
    /\ refinementInput = Str(<<>>)
    /\ isRefining = FALSE
    /\ imageRefinementInput = Str(<<>>)
    /\ isRefiningImage = FALSE
    /\ ops = <<>>
    /\ lastEvent = Event("init", "none", 0)
    /\ solo = NoSolo
    /\ returned = NoValue

\* a handler that returns at its guard: nothing is set, no call is made
Noop(name) ==
    /\ lastEvent' = Event(name, "noop", 0)
    /\ returned' = NoValue
    /\ UNCHANGED <<pipeVars, uiVars, ops, solo, svcVars>>

Started(name, op) ==
    /\ Len(ops) < MaxPending
    /\ ops' = Append(ops, op)
    /\ lastEvent' = Event(name, "start", 0)
    /\ solo' = SoloOf(NewSlot)
    /\ returned' = NoValue
    /\ UNCHANGED svcVars

\* the handler ends after its awaited call returned v (NoValue: it threw)
FinishedWith(s, what, v) ==
    /\ ops' = Remove(ops, s)
    /\ lastEvent' = Event(ops[s].kind, what, ops[s].phase)
    /\ solo' = NoSolo
    /\ returned' = v
    /\ UNCHANGED svcVars

Finished(s, what) == FinishedWith(s, what, NoValue)

UserEvent(name) ==
    /\ lastEvent' = Event(name, "user", 0)
    /\ solo' = NoSolo
    /\ returned' = NoValue
    /\ UNCHANGED svcVars

\* part_000 125-128: handleGenerateRecord up to its await
HandleGenerateRecord ==
    IF ~Truthy(Str(Trim(input.s)))
    THEN Noop("generateRecord")
    ELSE /\ Started("generateRecord", Op("generateRecord", 1, "", "", input))
         /\ isGenerating' = TRUE
         /\ error' = Null
         /\ UNCHANGED <<pipeVars, input, selectedStyle, hasKey, isEditing,
                        refinementInput, isRefining, imageRefinementInput, isRefiningImage>>

\* a handler that stores the call's result as it is, to tell from
\* GenerateRecordResolved
GenerateRecordResolvedRaw(s, text) ==
    /\ s \in Pending
    /\ ops[s].kind = "generateRecord"
    /\ formalRecord' = text
    /\ step' = "record"
    /\ isGenerating' = FALSE
    /\ FinishedWith(s, "success", text)
    /\ UNCHANGED <<feedback, cardImage, imagePrompt, input, selectedStyle, error, hasKey,
                   isEditing, refinementInput, isRefining, imageRefinementInput,
                   isRefiningImage>>

\* part_000 130-132, 143-145 with geminiService.ts 83: the call resolved with response.text
GenerateRecordResolved(s, text) ==
    /\ s \in Pending
    /\ ops[s].kind = "generateRecord"
    /\ formalRecord' = OrElse(text, Str(<<>>))
    /\ step' = "record"
    /\ isGenerating' = FALSE
    /\ FinishedWith(s, "success", text)
    /\ UNCHANGED <<feedback, cardImage, imagePrompt, input, selectedStyle, error, hasKey,
                   isEditing, refinementInput, isRefining, imageRefinementInput,
                   isRefiningImage>>

\* part_000 133-145: the call rejected with e
GenerateRecordCatch(s, e) ==
    /\ IF MessageIncludes(e, TNotFound)
       THEN hasKey' = FALSE /\ error' = MsgKeyExpired
       ELSE /\ error' = IF MessageIncludes(e, TResourceExhausted) THEN MsgQuota
                        ELSE MsgRecordFailed
            /\ UNCHANGED hasKey
    /\ isGenerating' = FALSE
    /\ Finished(s, "failure")
    /\ UNCHANGED <<pipeVars, input, selectedStyle, isEditing, refinementInput, isRefining,
                   imageRefinementInput, isRefiningImage>>

\* part_000 148-155: handleRefine up to its await
HandleRefine ==
    IF ~Truthy(Str(Trim(refinementInput.s)))
    THEN Noop("refine")
    ELSE /\ Started("refine",
                    Op("refine", 1, step, "",
                       IF step = "record" THEN formalRecord
                       ELSE OrElse(OptField(feedback, "fullText"), Str(<<>>))))
         /\ isRefining' = TRUE
         /\ error' = Null
         /\ UNCHANGED <<pipeVars, input, isGenerating, selectedStyle, hasKey, isEditing,
                        refinementInput, imageRefinementInput, isRefiningImage>>

\* a refine that leaves the instruction in its field, to tell from RefineResolved
RefineResolvedKeepsInstruction(s, text) ==
    /\ s \in Pending
    /\ ops[s].kind = "refine"
    /\ IF ops[s].capStep = "record"
       THEN formalRecord' = OrElse(text, Str(<<>>)) /\ UNCHANGED feedback
       ELSE /\ feedback' = IF feedback # Null THEN [feedback EXCEPT !.fullText = text]
                           ELSE Null
            /\ UNCHANGED formalRecord
    /\ isRefining' = FALSE
    /\ FinishedWith(s, "success", text)
    /\ UNCHANGED <<cardImage, imagePrompt, step, input, isGenerating, selectedStyle, error,
                   hasKey, isEditing, imageRefinementInput, isRefiningImage, refinementInput>>

\* part_000 155-162, 166-168: refineContent resolved with response.text; step is
\* the value the closure captured
RefineResolved(s, text) ==
    /\ s \in Pending
    /\ ops[s].kind = "refine"
    /\ IF ops[s].capStep = "record"
       THEN formalRecord' = OrElse(text, Str(<<>>)) /\ UNCHANGED feedback
       ELSE /\ feedback' = IF feedback # Null THEN [feedback EXCEPT !.fullText = text]
                           ELSE Null
            /\ UNCHANGED formalRecord
    /\ refinementInput' = Str(<<>>)
    /\ isRefining' = FALSE
    /\ FinishedWith(s, "success", text)
    /\ UNCHANGED <<cardImage, imagePrompt, step, input, isGenerating, selectedStyle, error,
                   hasKey, isEditing, imageRefinementInput, isRefiningImage>>

\* part_000 163-168
RefineCatch(s, e) ==
    /\ error' = MsgRefineFailed
    /\ isRefining' = FALSE
    /\ Finished(s, "failure")
    /\ UNCHANGED <<pipeVars, input, isGenerating, selectedStyle, hasKey, isEditing,
                   refinementInput, imageRefinementInput, isRefiningImage>>

\* part_000 171-176: handleRefineImage up to its first await
HandleRefineImage ==
    IF ~(Truthy(Str(Trim(imageRefinementInput.s))) /\ Truthy(imagePrompt))
    THEN Noop("refineImage")
    ELSE /\ Started("refineImage", Op("refineImage", 1, "", selectedStyle, imagePrompt))
         /\ isRefiningImage' = TRUE
         /\ error' = Null
         /\ UNCHANGED <<pipeVars, input, isGenerating, selectedStyle, hasKey, isEditing,
                        refinementInput, isRefining, imageRefinementInput>>

\* a handler that leaves the old image in place while the new one is made, to
\* tell from RefineImagePromptResolved
RefineImagePromptResolvedKeepsCard(s, text) ==
    /\ s \in Pending
    /\ ops[s].kind = "refineImage"
    /\ ops[s].phase = 1
    /\ IF Truthy(text)
       THEN /\ imagePrompt' = text
            /\ ops' = [ops EXCEPT ![s] = [@ EXCEPT !.phase = 2,
                          !.arg = Str(FinalPrompt(Str(<<>>), ops[s].capStyle, text))]]
            /\ lastEvent' = Event("refineImage", "prompt", 1)
            /\ solo' = KeepSolo(s)
            /\ returned' = text
            /\ UNCHANGED <<cardImage, imageRefinementInput, isRefiningImage, svcVars>>
       ELSE /\ imageRefinementInput' = Str(<<>>)
            /\ isRefiningImage' = FALSE
            /\ FinishedWith(s, "success", text)
            /\ UNCHANGED <<imagePrompt, cardImage>>
    /\ UNCHANGED <<formalRecord, feedback, step, input, isGenerating, selectedStyle, error,
                   hasKey, isEditing, refinementInput, isRefining>>

\* part_000 176-183, 187-189: refineImagePrompt resolved with response.text
RefineImagePromptResolved(s, text) ==
    /\ s \in Pending
    /\ ops[s].kind = "refineImage"
    /\ ops[s].phase = 1
    /\ IF Truthy(text)
       THEN /\ imagePrompt' = text
            /\ cardImage' = Null
            /\ ops' = [ops EXCEPT ![s] = [@ EXCEPT !.phase = 2,
                          !.arg = Str(FinalPrompt(Str(<<>>), ops[s].capStyle, text))]]
            /\ lastEvent' = Event("refineImage", "prompt", 1)
            /\ solo' = KeepSolo(s)
            /\ returned' = text
            /\ UNCHANGED <<imageRefinementInput, isRefiningImage, svcVars>>
       ELSE /\ imageRefinementInput' = Str(<<>>)
            /\ isRefiningImage' = FALSE
            /\ FinishedWith(s, "success", text)
            /\ UNCHANGED <<imagePrompt, cardImage>>
    /\ UNCHANGED <<formalRecord, feedback, step, input, isGenerating, selectedStyle, error,
                   hasKey, isEditing, refinementInput, isRefining>>

\* part_000 180-183, 187-189 with geminiService.ts 194-199: generateCardImage resolved
RefineImageCardResolved(s, inline) ==
    /\ s \in Pending
    /\ ops[s].kind = "refineImage"
    /\ ops[s].phase = 2
    /\ cardImage' = CardImageOf(inline)
    /\ imageRefinementInput' = Str(<<>>)
    /\ isRefiningImage' = FALSE
    /\ FinishedWith(s, "success", CardImageOf(inline))
    /\ UNCHANGED <<formalRecord, feedback, imagePrompt, step, input, isGenerating,
                   selectedStyle, error, hasKey, isEditing, refinementInput, isRefining>>

\* a catch that clears the instruction too, to tell from RefineImageCatch
RefineImageCatchClearsInstruction(s, e) ==
    /\ error' = MsgImageRefineFailed
    /\ isRefiningImage' = FALSE
    /\ imageRefinementInput' = Str(<<>>)
    /\ Finished(s, "failure")
    /\ UNCHANGED <<pipeVars, input, isGenerating, selectedStyle, hasKey, isEditing,
                   refinementInput, isRefining>>

\* part_000 184-189: either call rejected
RefineImageCatch(s, e) ==
    /\ error' = MsgImageRefineFailed
    /\ isRefiningImage' = FALSE
    /\ Finished(s, "failure")
    /\ UNCHANGED <<pipeVars, input, isGenerating, selectedStyle, hasKey, isEditing,
                   refinementInput, isRefining, imageRefinementInput>>

\* part_000 192-196: handleGoToFeedback up to its await
HandleGoToFeedback ==
    /\ Started("goToFeedback", Op("goToFeedback", 1, "", "", formalRecord))
    /\ isGenerating' = TRUE
    /\ error' = Null
    /\ UNCHANGED <<pipeVars, input, selectedStyle, hasKey, isEditing, refinementInput,
                   isRefining, imageRefinementInput, isRefiningImage>>

\* a handler that stores an empty fullText, to tell from FeedbackState
FeedbackStateEmptyFullText(summary) == [summary EXCEPT !.fullText = Str(<<>>)]

\* part_000 198-199: fullText is built again from the summary
FeedbackState(summary) ==
    [summary EXCEPT !.fullText = Str(Template(summary.feedbackCard) \o <<"\n", "\n">>
                                     \o Template(summary.healingSentence))]

\* a handler without its finally block, to tell from GoToFeedbackCatch
GoToFeedbackCatchKeepsFlag(s, e) ==
    /\ error' = MsgFeedbackFailed
    /\ Finished(s, "failure")
    /\ UNCHANGED <<pipeVars, input, isGenerating, selectedStyle, hasKey, isEditing,
                   refinementInput, isRefining, imageRefinementInput, isRefiningImage>>

\* part_000 202-207
GoToFeedbackCatch(s, e) ==
    /\ error' = MsgFeedbackFailed
    /\ isGenerating' = FALSE
    /\ Finished(s, "failure")
    /\ UNCHANGED <<pipeVars, input, selectedStyle, hasKey, isEditing, refinementInput,
                   isRefining, imageRefinementInput, isRefiningImage>>

\* part_000 214-218: the prompt handleGoToVisual builds
VisualTheme == OrElse(OptField(feedback, "theme"), Str(<<"warmth">>))
\* a prompt with the directive for every style, to tell from VisualPrompt
VisualPromptAlwaysPortrait ==
    Str(<<"aspect ratio 9:16. ">> \o IMAGE_STYLES[selectedStyle] \o <<" Theme: ">>
          \o Template(VisualTheme) \o <<".">>)

VisualPrompt ==
    IF selectedStyle = "auto"
    THEN Str(<<"aspect ratio 9:16. ">> \o IMAGE_STYLES[selectedStyle] \o <<" The theme is: ">>
             \o Template(VisualTheme) \o <<". Create a visual metaphor for this theme.">>)
    ELSE Str(IMAGE_STYLES[selectedStyle] \o <<" Theme: ">> \o Template(VisualTheme) \o <<".">>)

\* part_000 210-221: handleGoToVisual up to its await; the prompt is stored first
HandleGoToVisual ==
    /\ Started("goToVisual",
               Op("goToVisual", 1, "", "",
                  Str(FinalPrompt(VisualTheme, selectedStyle, VisualPrompt))))
    /\ isGenerating' = TRUE
    /\ error' = Null
    /\ imagePrompt' = VisualPrompt
    /\ UNCHANGED <<formalRecord, feedback, cardImage, step, input, selectedStyle, hasKey,
                   isEditing, refinementInput, isRefining, imageRefinementInput,
                   isRefiningImage>>

\* a handler that enters the visual stage only with an image, to tell from
\* GoToVisualResolved
GoToVisualResolvedNeedsImage(s, inline) ==
    /\ s \in Pending
    /\ ops[s].kind = "goToVisual"
    /\ cardImage' = CardImageOf(inline)
    /\ step' = IF CardImageOf(inline) = Null THEN step ELSE "visual"
    /\ isGenerating' = FALSE
    /\ FinishedWith(s, "success", CardImageOf(inline))
    /\ UNCHANGED <<formalRecord, feedback, imagePrompt, input, selectedStyle, error, hasKey,
                   isEditing, refinementInput, isRefining, imageRefinementInput,
                   isRefiningImage>>

\* part_000 221-223, 227-229 with geminiService.ts 194-199
GoToVisualResolved(s, inline) ==
    /\ s \in Pending
    /\ ops[s].kind = "goToVisual"
    /\ cardImage' = CardImageOf(inline)
    /\ step' = "visual"
    /\ isGenerating' = FALSE
    /\ FinishedWith(s, "success", CardImageOf(inline))
    /\ UNCHANGED <<formalRecord, feedback, imagePrompt, input, selectedStyle, error, hasKey,
                   isEditing, refinementInput, isRefining, imageRefinementInput,
                   isRefiningImage>>

\* part_000 224-229
GoToVisualCatch(s, e) ==
    /\ error' = MsgVisualFailed
    /\ isGenerating' = FALSE
    /\ Finished(s, "failure")
    /\ UNCHANGED <<pipeVars, input, selectedStyle, hasKey, isEditing, refinementInput,
                   isRefining, imageRefinementInput, isRefiningImage>>

\* the promise of a pending client call rejects with e: withRetry rethrows the
\* error fn() threw (geminiService.ts 23, 26) into the handler's catch
ClientCallRejects(s, e) ==
    /\ s \in Pending
    /\ CASE ops[s].kind = "generateRecord" -> GenerateRecordCatch(s, e)
         [] ops[s].kind = "refine" -> RefineCatch(s, e)
         [] ops[s].kind = "refineImage" -> RefineImageCatch(s, e)
         [] ops[s].kind = "goToFeedback" -> GoToFeedbackCatch(s, e)
         [] ops[s].kind = "goToVisual" -> GoToVisualCatch(s, e)
         [] OTHER -> FALSE

\* part_000 196-201, 205-207 with geminiService.ts 142-146: the schema-mode
\* request returned response.text = payload
GoToFeedbackResolved(s, payload) ==
    /\ s \in Pending
    /\ ops[s].kind = "goToFeedback"
    /\ IF JsonWellFormed(PayloadText(payload))
       THEN /\ feedback' = FeedbackState(FeedbackOfPayload(PayloadText(payload)))
            /\ step' = "feedback"
            /\ isEditing' = FALSE
            /\ isGenerating' = FALSE
            /\ FinishedWith(s, "success", FeedbackOfPayload(PayloadText(payload)))
            /\ UNCHANGED <<formalRecord, cardImage, imagePrompt, input, selectedStyle, error,
                           hasKey, refinementInput, isRefining, imageRefinementInput,
                           isRefiningImage>>
       ELSE ClientCallRejects(s, ErrSyntax)

\* part_000 238-277: handleDownloadCard up to its first await (cardRef.current is
\* set while the visual stage is rendered)
HandleDownloadCard ==
    /\ Started("downloadCard", Op("downloadCard", 1, "", "", Undefined))
    /\ isGenerating' = TRUE
    /\ UNCHANGED <<pipeVars, input, selectedStyle, error, hasKey, isEditing,
                   refinementInput, isRefining, imageRefinementInput, isRefiningImage>>

\* part_000 252-275: toPng resolved (ok) or something in the try block threw
DownloadCardSettles(s, ok) ==
    /\ s \in Pending
    /\ ops[s].kind = "downloadCard"
    /\ error' = IF ok THEN error ELSE MsgDownloadFailed
    /\ isGenerating' = FALSE
    /\ Finished(s, IF ok THEN "success" ELSE "failure")
    /\ UNCHANGED <<pipeVars, input, selectedStyle, hasKey, isEditing, refinementInput,
                   isRefining, imageRefinementInput, isRefiningImage>>

\* a reset that forgets line 284, to tell from Reset
ResetKeepsImagePrompt ==
    /\ step' = "initial"
    /\ formalRecord' = Str(<<>>)
    /\ feedback' = Null
    /\ cardImage' = Null
    /\ input' = Str(<<>>)
    /\ isEditing' = FALSE
    /\ UserEvent("reset")
    /\ UNCHANGED <<imagePrompt, isGenerating, selectedStyle, error, hasKey, refinementInput,
                   isRefining, imageRefinementInput, isRefiningImage, ops>>

\* part_000 279-287
Reset ==
    /\ step' = "initial"
    /\ formalRecord' = Str(<<>>)
    /\ feedback' = Null
    /\ cardImage' = Null
    /\ imagePrompt' = Null
    /\ input' = Str(<<>>)
    /\ isEditing' = FALSE
    /\ UserEvent("reset")
    /\ UNCHANGED <<isGenerating, selectedStyle, error, hasKey, refinementInput, isRefining,
                   imageRefinementInput, isRefiningImage, ops>>

----------------------------------------------------------------------------
(* The controls the rendered page offers, part_000 289-967 *)

\* 541: the notes textarea of the initial stage
SetInput(v) ==
    /\ step = "initial"
    /\ input' = v
    /\ UserEvent("type")
    /\ UNCHANGED <<pipeVars, isGenerating, selectedStyle, error, hasKey, isEditing,
                   refinementInput, isRefining, imageRefinementInput, isRefiningImage, ops>>

\* 546-548
ClickGenerateRecord ==
    /\ step = "initial"
    /\ ~(~Truthy(Str(Trim(input.s))) \/ isGenerating)
    /\ HandleGenerateRecord

\* 363-371 (header, every stage but the initial one) and 955-957 (visual stage)
ClickReset ==
    /\ step # "initial"
    /\ Reset

\* 572, 653
ToggleEditing ==
    /\ step \in {"record", "feedback"}
    /\ isEditing' = ~isEditing
    /\ UserEvent("toggleEditing")
    /\ UNCHANGED <<pipeVars, input, isGenerating, selectedStyle, error, hasKey,
                   refinementInput, isRefining, imageRefinementInput, isRefiningImage, ops>>

\* 588-592
EditRecord(v) ==
    /\ step = "record"
    /\ isEditing
    /\ formalRecord' = v
    /\ UserEvent("editRecord")
    /\ UNCHANGED <<feedback, cardImage, imagePrompt, step, uiVars, ops>>

\* 661-665
EditFeedback(v) ==
    /\ step = "feedback"
    /\ isEditing
    /\ feedback' = IF feedback # Null THEN [feedback EXCEPT !.fullText = v] ELSE Null
    /\ UserEvent("editFeedback")
    /\ UNCHANGED <<formalRecord, cardImage, imagePrompt, step, uiVars, ops>>

\* 602-604
ClickGoToFeedback ==
    /\ step = "record"
    /\ ~isGenerating
    /\ HandleGoToFeedback

\* 623-626, 719-722
SetRefinementInput(v) ==
    /\ step \in {"record", "feedback"}
    /\ refinementInput' = v
    /\ UserEvent("type")
    /\ UNCHANGED <<pipeVars, input, isGenerating, selectedStyle, error, hasKey, isEditing,
                   isRefining, imageRefinementInput, isRefiningImage, ops>>

\* 629-631, 725-727
ClickRefine ==
    /\ step \in {"record", "feedback"}
    /\ ~(isRefining \/ ~Truthy(Str(Trim(refinementInput.s))))
    /\ HandleRefine

\* 682-684
SetSelectedStyle(style) ==
    /\ step = "feedback"
    /\ selectedStyle' = style
    /\ UserEvent("style")
    /\ UNCHANGED <<pipeVars, input, isGenerating, error, hasKey, isEditing, refinementInput,
                   isRefining, imageRefinementInput, isRefiningImage, ops>>

\* 698-700
ClickGoToVisual ==
    /\ step = "feedback"
    /\ ~isGenerating
    /\ HandleGoToVisual

\* 801-802 (overlay button, never disabled) and 813-815
ClickDownloadCard ==
    /\ step = "visual"
    /\ HandleDownloadCard

\* 838, 928-932
SetImageRefinementInput(v) ==
    /\ step = "visual"
    /\ Truthy(imagePrompt)
    /\ imageRefinementInput' = v
    /\ UserEvent("type")
    /\ UNCHANGED <<pipeVars, input, isGenerating, selectedStyle, error, hasKey, isEditing,
                   refinementInput, isRefining, isRefiningImage, ops>>

\* 838, 934: Enter in the instruction field calls the handler whatever the flags say
PressEnterRefineImage ==
    /\ step = "visual"
    /\ Truthy(imagePrompt)
    /\ HandleRefineImage

\* 838, 936-938
ClickRefineImage ==
    /\ step = "visual"
    /\ Truthy(imagePrompt)
    /\ ~(isRefiningImage \/ ~Truthy(Str(Trim(imageRefinementInput.s))))
    /\ HandleRefineImage

\* a back-navigation that drops the card, to tell from BackToFeedback
BackToFeedbackClearsCard ==
    /\ step = "visual"
    /\ step' = "feedback"
    /\ cardImage' = Null
    /\ UserEvent("backToFeedback")
    /\ UNCHANGED <<formalRecord, feedback, imagePrompt, uiVars, ops>>

\* 949-951
BackToFeedback ==
    /\ step = "visual"
    /\ step' = "feedback"
    /\ UserEvent("backToFeedback")
    /\ UNCHANGED <<formalRecord, feedback, cardImage, imagePrompt, uiVars, ops>>

Init == RetryInit /\ ClInit /\ AppInit

\* the page as the user can drive it, and the awaited promises of the suspended
\* handlers settling
Next ==
    \/ \E v \in InputTexts : SetInput(v)
    \/ ClickGenerateRecord
    \/ ClickReset
    \/ ClickGoToFeedback
    \/ \E v \in InstructionTexts : SetRefinementInput(v)
    \/ ClickRefine
    \/ ClickGoToVisual
    \/ \E v \in InstructionTexts : SetImageRefinementInput(v)
    \/ PressEnterRefineImage
    \/ ClickRefineImage
    \/ BackToFeedback
    \/ \E s \in Slots, text \in TextResponses : GenerateRecordResolved(s, text)
    \/ \E s \in Slots, text \in TextResponses : RefineResolved(s, text)
    \/ \E s \in Slots, text \in PromptResponses : RefineImagePromptResolved(s, text)
    \/ \E s \in Slots, inline \in ImageResponses : RefineImageCardResolved(s, inline)
    \/ \E s \in Slots, payload \in FeedbackPayloads : GoToFeedbackResolved(s, payload)
    \/ \E s \in Slots, inline \in ImageResponses : GoToVisualResolved(s, inline)
    \/ \E s \in Slots, e \in AppErrors : ClientCallRejects(s, e)
Spec == Init /\ [][Next]_vars

\* the page when the credential is invalid or has expired during the session:
\* a client call that fails, fails with the provider's not-found error
AuthErrors == {ErrNotFound}
NextAuth ==
    \/ \E v \in InputTexts : SetInput(v)
    \/ ClickGenerateRecord
    \/ ClickReset
    \/ ClickGoToFeedback
    \/ \E v \in InstructionTexts : SetRefinementInput(v)
    \/ ClickRefine
    \/ ClickGoToVisual
    \/ \E v \in InstructionTexts : SetImageRefinementInput(v)
    \/ PressEnterRefineImage
    \/ ClickRefineImage
    \/ BackToFeedback
    \/ \E s \in Slots, text \in TextResponses : GenerateRecordResolved(s, text)
    \/ \E s \in Slots, text \in TextResponses : RefineResolved(s, text)
    \/ \E s \in Slots, text \in PromptResponses : RefineImagePromptResolved(s, text)
    \/ \E s \in Slots, inline \in ImageResponses : RefineImageCardResolved(s, inline)
    \/ \E s \in Slots : GoToFeedbackResolved(s, FullPayload)
    \/ \E s \in Slots, inline \in ImageResponses : GoToVisualResolved(s, inline)
    \/ \E s \in Slots, e \in AuthErrors : ClientCallRejects(s, e)
SpecAuth == Init /\ [][NextAuth]_vars

\* the page when the client call of every suspended handler settles: the
\* promise awaited by the invocation in slot s resolves or rejects; one
\* response of each kind, and no text as well where the handler tests for it
FairTexts == {Str(<<"text">>)}
FairErrors == {ErrServer}
CallSettles(s) ==
    \/ \E text \in FairTexts : GenerateRecordResolved(s, text)
    \/ \E text \in FairTexts : RefineResolved(s, text)
    \/ \E text \in PromptResponses : RefineImagePromptResolved(s, text)
    \/ RefineImageCardResolved(s, NoInlineData)
    \/ GoToFeedbackResolved(s, FullPayload)
    \/ GoToVisualResolved(s, NoInlineData)
    \/ \E e \in FairErrors : ClientCallRejects(s, e)
NextFair ==
    \/ \E v \in InputTexts : SetInput(v)
    \/ ClickGenerateRecord
    \/ ClickReset
    \/ ClickGoToFeedback
    \/ \E v \in InstructionTexts : SetRefinementInput(v)
    \/ ClickRefine
    \/ ClickGoToVisual
    \/ \E v \in InstructionTexts : SetImageRefinementInput(v)
    \/ PressEnterRefineImage
    \/ ClickRefineImage
    \/ BackToFeedback
    \/ \E s \in Slots, text \in FairTexts : GenerateRecordResolved(s, text)
    \/ \E s \in Slots, text \in FairTexts : RefineResolved(s, text)
    \/ \E s \in Slots, text \in PromptResponses : RefineImagePromptResolved(s, text)
    \/ \E s \in Slots : RefineImageCardResolved(s, NoInlineData)
    \/ \E s \in Slots : GoToFeedbackResolved(s, FullPayload)
    \/ \E s \in Slots : GoToVisualResolved(s, NoInlineData)
    \/ \E s \in Slots, e \in FairErrors : ClientCallRejects(s, e)
SpecFair == Init /\ [][NextFair]_vars /\ \A s \in Slots : WF_vars(CallSettles(s))

\* The three guarded handlers called directly, whatever the page enables or
\* shows (generateRecord and refine in the stages that render their control,
\* refineImage in any stage), with blank text typed as well. The unguarded
\* controls are used while nothing is pending.
Idle == ops = <<>>
CallGenerateRecord == step = "initial" /\ HandleGenerateRecord
CallRefine == step \in {"record", "feedback"} /\ HandleRefine
CallRefineImage == HandleRefineImage
NextOps ==
    \/ \E v \in InputTexts \cup BlankTexts : SetInput(v)
    \/ \E v \in InstructionTexts \cup BlankTexts : SetRefinementInput(v)
    \/ \E v \in InstructionTexts \cup BlankTexts : SetImageRefinementInput(v)
    \/ CallGenerateRecord
    \/ CallRefine
    \/ CallRefineImage
    \/ Idle /\ ClickGoToFeedback
    \/ Idle /\ ClickGoToVisual
    \/ Idle /\ ClickReset
    \/ Idle /\ BackToFeedback
    \/ \E s \in Slots, text \in TextResponses : GenerateRecordResolved(s, text)
    \/ \E s \in Slots, text \in TextResponses : RefineResolved(s, text)
    \/ \E s \in Slots, text \in PromptResponses : RefineImagePromptResolved(s, text)
    \/ \E s \in Slots, inline \in ImageResponses : RefineImageCardResolved(s, inline)
    \/ \E s \in Slots, payload \in FeedbackPayloads : GoToFeedbackResolved(s, payload)
    \/ \E s \in Slots, inline \in ImageResponses : GoToVisualResolved(s, inline)
    \/ \E s \in Slots, e \in AppErrors : ClientCallRejects(s, e)
SpecOps == Init /\ [][NextOps]_vars

\* one call of withRetry at a time
NextRetry ==
    \/ \E m \in 0..MaxRetriesBound : RetryStart(m) /\ UNCHANGED clVars
    \/ \E v \in RetryResults : RetryFnResolves(v) /\ UNCHANGED clVars
    \/ \E e \in Errors, jitter \in JitterSamples : RetryFnRejects(e, jitter) /\ UNCHANGED clVars
    \/ RetryTimerFires /\ UNCHANGED clVars
    \/ RetryReturn /\ UNCHANGED clVars
SpecRetry == Init /\ [][NextRetry]_vars

\* the same call when every fn() that was invoked settles (line 11) and every
\* timer that was set fires (line 20)
FnSettles ==
    \/ \E v \in RetryResults : RetryFnResolves(v) /\ UNCHANGED clVars
    \/ \E e \in Errors, jitter \in JitterSamples : RetryFnRejects(e, jitter) /\ UNCHANGED clVars
TimerFires == RetryTimerFires /\ UNCHANGED clVars
SpecRetryFair == SpecRetry /\ WF_vars(FnSettles) /\ WF_vars(TimerFires)

\* a session in which each operation is started when nothing is pending, with
\* the texts edited by hand and every image style chosen
EditedTexts == {Str(<<"edited">>)}
NextSeq ==
    \/ \E v \in InputTexts : SetInput(v)
    \/ Idle /\ ClickGenerateRecord
    \/ Idle /\ ClickReset
    \/ Idle /\ ToggleEditing
    \/ \E v \in EditedTexts : Idle /\ EditRecord(v)
    \/ \E v \in EditedTexts : Idle /\ EditFeedback(v)
    \/ Idle /\ ClickGoToFeedback
    \/ \E v \in InstructionTexts : SetRefinementInput(v)
    \/ Idle /\ ClickRefine
    \/ \E style \in DOMAIN IMAGE_STYLES : Idle /\ SetSelectedStyle(style)
    \/ Idle /\ ClickGoToVisual
    \/ \E v \in InstructionTexts : SetImageRefinementInput(v)
    \/ Idle /\ ClickRefineImage
    \/ Idle /\ BackToFeedback
    \/ \E s \in Slots, text \in TextResponses : GenerateRecordResolved(s, text)
    \/ \E s \in Slots, text \in TextResponses : RefineResolved(s, text)
    \/ \E s \in Slots, text \in PromptResponses : RefineImagePromptResolved(s, text)
    \/ \E s \in Slots, inline \in ImageResponses : RefineImageCardResolved(s, inline)
    \/ \E s \in Slots, payload \in FeedbackPayloads : GoToFeedbackResolved(s, payload)
    \/ \E s \in Slots, inline \in ImageResponses : GoToVisualResolved(s, inline)
    \/ \E s \in Slots : ClientCallRejects(s, ErrServer)
SpecSeq == Init /\ [][NextSeq]_vars

\* the client methods called one at a time, with the provider answering
NextClient ==
    \/ \E method \in Methods, customKey \in CustomKeys : ClCall(method, customKey)
    \/ \E resp \in SchemaResponses \cup ImageResponses \cup TextResponses :
          ClProviderResolves(resp, 0)
    \/ \E e \in ProviderErrors : ClProviderRejects(e, 0)
    \/ ClTimerFires
    \/ ClReturn
    \/ \E k \in EnvKeys : ClSetEnvKey(k)
SpecClient == Init /\ [][NextClient]_vars

-----------------------------------------------------------------------------
\* Properties of withRetry, checked under SpecRetry.

\* the rate-limit signals of the error samples, told by the sample itself
IsRateLimitSample(e) == e \in RateLimitErrors

\* C1: when an attempt of the retry wrapper fails with an error that carries no
\* rate-limit signal, the wrapper is rejected at once with that very error: the
\* failing attempt is the last call of fn, no delay follows it, and when it is
\* the first attempt fn has been invoked exactly once.
C1_NonRateLimitRethrown ==
    \A k \in 1..Len(rtFailures) :
        ~IsRateLimitSample(rtFailures[k]) =>
            /\ k = Len(rtFailures)
            /\ rtPc = "rejected"
            /\ rtSettled = rtFailures[k]
            /\ rtCalls = k
            /\ Len(rtDelays) = k - 1

C1_Witness ==
    /\ rtPc = "rejected"
    /\ rtMax = DefaultMaxRetries
    /\ rtFailures = <<ErrServer>>
    /\ rtSettled = ErrServer
    /\ rtCalls = 1

\* C2: once maxAttempts attempts in a row have failed with rate-limit errors the
\* wrapper is rejected with the error of the last attempt, fn has been invoked
\* exactly maxAttempts times, and fn is never invoked more often than that.
C2_ExhaustedRethrowsLast ==
    /\ rtCalls <= rtMax
    /\ (/\ rtMax >= 1
        /\ Len(rtFailures) = rtMax
        /\ \A k \in 1..rtMax : IsRateLimitSample(rtFailures[k]))
       => /\ rtPc = "rejected"
          /\ rtSettled = rtFailures[rtMax]
          /\ rtCalls = rtMax

C2_Witness ==
    /\ rtPc = "rejected"
    /\ rtMax = DefaultMaxRetries
    /\ rtFailures = <<ErrStatus429, ErrMessage429, ErrExhausted>>
    /\ rtSettled = ErrExhausted
    /\ rtCalls = DefaultMaxRetries

\* C3: the k-th wait of a call (after the rate-limit failure of attempt k - 1,
\* counted from 0) lasts at least 2^(k-1) * 2000 ms and less than 1000 ms more,
\* one wait follows each failure that is retried, and attempt k is not started
\* before the k-th wait is over.
C3_BackoffBeforeNextAttempt ==
    /\ \A k \in 1..Len(rtDelays) :
          /\ rtDelays[k] >= Pow2(k - 1) * 2000
          /\ rtDelays[k] < Pow2(k - 1) * 2000 + 1000
          /\ IsRateLimitSample(rtFailures[k])
    /\ rtPc = "sleeping" => rtCalls = Len(rtDelays) /\ Len(rtFailures) = Len(rtDelays)
    /\ rtPc = "calling" => rtCalls = Len(rtDelays) + 1

C3_Witness ==
    /\ rtPc = "calling"
    /\ rtCalls = 3
    /\ Len(rtDelays) = 2
    /\ rtDelays[1] = 2999
    /\ rtDelays[2] = 4000

\* C4: as soon as an attempt succeeds the wrapper is resolved with exactly the
\* value that attempt returned, and the successful call is the last call of fn:
\* one call per earlier failure and one for the success.
C4_SuccessReturnsResult ==
    rtValue # NoValue =>
        /\ rtPc = "resolved"
        /\ rtSettled = rtValue
        /\ rtCalls = Len(rtFailures) + 1
        /\ Len(rtDelays) = Len(rtFailures)

C4_Witness ==
    /\ rtPc = "resolved"
    /\ rtValue = Str(<<"ok">>)
    /\ rtSettled = Str(<<"ok">>)
    /\ rtFailures = <<ErrCode429>>
    /\ rtCalls = 2

-----------------------------------------------------------------------------
\* Properties of the page, checked under Spec (the page as the user can drive
\* it) and SpecOps (the guarded handlers called directly).

\* C5: every change of the current stage is initial->record by generateRecord,
\* record->feedback by generateFeedback, feedback->visual by generateVisual,
\* visual->feedback by backToFeedback, or any->initial by reset, whatever the
\* user clicks while a generation call is pending.
C5_StageChange ==
    \/ step = "initial" /\ step' = "record" /\ lastEvent'.op = "generateRecord"
    \/ step = "record" /\ step' = "feedback" /\ lastEvent'.op = "goToFeedback"
    \/ step = "feedback" /\ step' = "visual" /\ lastEvent'.op = "goToVisual"
    \/ step = "visual" /\ step' = "feedback" /\ lastEvent'.op = "backToFeedback"
    \/ step' = "initial" /\ lastEvent'.op = "reset"
C5_OnlyMachineTransitions == [][step' # step => C5_StageChange]_vars

\* text with nothing but white space in it, the empty text included
IsBlank(v) == \A j \in 1..Len(v.s) : v.s[j] \in {" ", "\n", "\t"}
\* a handler was entered in this step: it returned at its guard or made its call
Entered(name) == lastEvent'.op = name /\ lastEvent'.what \in {"noop", "start"}
ReturnedAtGuard ==
    /\ lastEvent'.what = "noop"
    /\ UNCHANGED <<pipeVars, uiVars, ops>>

\* C6: generateRecord entered with blank input, refine entered with a blank
\* instruction, and refineImage entered with a blank instruction or with no
\* imagePrompt return at their guard: no client call is made, and the stage, the
\* pipeline data, the error message and the in-flight flags stay as they are.
C6_GuardedNoOp ==
    [][/\ (Entered("generateRecord") /\ IsBlank(input)) => ReturnedAtGuard
       /\ (Entered("refine") /\ IsBlank(refinementInput)) => ReturnedAtGuard
       /\ (Entered("refineImage") /\ (IsBlank(imageRefinementInput) \/ imagePrompt = Null))
             => ReturnedAtGuard]_vars

C6_Witness ==
    /\ lastEvent = Event("refine", "noop", 0)
    /\ refinementInput \in BlankTexts
    /\ isGenerating
    /\ Len(ops) = 1

\* C7: after reset the stage is initial, formalRecord is "", feedback, cardImage
\* and imagePrompt are absent and the raw input is "".
C7_ResetPostcondition ==
    lastEvent.op = "reset" =>
        /\ step = "initial"
        /\ formalRecord = Str(<<>>)
        /\ feedback = Null
        /\ cardImage = Null
        /\ imagePrompt = Null
        /\ input = Str(<<>>)

C7_Witness ==
    /\ lastEvent = Event("reset", "user", 0)
    /\ step = "initial"
    /\ imagePrompt = Null
    /\ Len(ops) = 1
    /\ ops[1].kind = "refineImage"

\* C8: backToFeedback is taken in stage visual, sets the stage to feedback and
\* leaves cardImage, imagePrompt, feedback and formalRecord as they were.
C8_BackToFeedbackFrame ==
    [][lastEvent'.op = "backToFeedback" =>
          /\ step = "visual"
          /\ step' = "feedback"
          /\ UNCHANGED <<cardImage, imagePrompt, feedback, formalRecord>>]_vars

C8_Witness ==
    /\ lastEvent = Event("backToFeedback", "user", 0)
    /\ step = "feedback"
    /\ cardImage # Null
    /\ imagePrompt # Null

\* the invocation that has run alone since it started fails in this step
SoloFails(kinds) ==
    /\ solo.slot \in Pending
    /\ ops[solo.slot].kind \in kinds
    /\ ops' = Remove(ops, solo.slot)
    /\ lastEvent'.what = "failure"

\* C9: when generateRecord, generateFeedback or generateVisual fails, with
\* nothing else done since it started, the stage, formalRecord, feedback,
\* imagePrompt and cardImage are what they were before it started.
C9_FailedTransitionKeepsData ==
    [][SoloFails({"generateRecord", "goToFeedback", "goToVisual"})
          => pipeVars' = solo.snap]_vars

\* C10: when the image call of refineImage fails after refineImagePrompt gave a
\* non-empty prompt, with nothing else done since refineImage started,
\* imagePrompt is the refined prompt the image call was made with, cardImage is
\* absent, the stage is still visual and the instruction is still there.
C10_RefineImagePartialUpdate ==
    [][(SoloFails({"refineImage"}) /\ ops[solo.slot].phase = 2) =>
          /\ imagePrompt'.k = "string"
          /\ imagePrompt'.s # <<>>
          /\ ops[solo.slot].arg = Str(imagePrompt'.s \o <<".">> \o NoTextSuffix)
          /\ cardImage' = Null
          /\ step' = "visual"
          /\ imageRefinementInput' = imageRefinementInput
          /\ ~IsBlank(imageRefinementInput')]_vars

C10_Witness ==
    /\ lastEvent = Event("refineImage", "failure", 2)
    /\ imagePrompt = Str(<<"text">>)
    /\ cardImage = Null
    /\ step = "visual"
    /\ imageRefinementInput \in InstructionTexts
    /\ error = MsgImageRefineFailed
    /\ ~isRefiningImage

-----------------------------------------------------------------------------
\* Properties of the feedback text, checked under SpecSeq.

\* feedbackCard + "\n\n" + healingSentence of a feedback object
JoinOf(f) == Str(Template(f.feedbackCard) \o <<"\n", "\n">> \o Template(f.healingSentence))
Joined(f) == f # Null /\ f.fullText = JoinOf(f)

\* C11 as stated: whenever feedback is present its fullText is feedbackCard,
\* a blank line and healingSentence, also after a refine in the feedback stage
\* and after an edit by hand.
C11_FullTextAlwaysJoined == feedback # Null => feedback.fullText = JoinOf(feedback)

\* C11 as the code has it: the feedback that generateFeedback stores has the
\* joined fullText, and a present feedback loses it only by a refine or an edit
\* by hand, which put their text in fullText and leave feedbackCard and
\* healingSentence as they are (fullText is never joined again from them).
C11_FullTextJoinedUntilReplaced ==
    [][/\ lastEvent' = Event("goToFeedback", "success", 1) => Joined(feedback')
       /\ (Joined(feedback) /\ feedback' # Null /\ ~Joined(feedback')) =>
             /\ lastEvent'.op \in {"refine", "editFeedback"}
             /\ feedback'.feedbackCard = feedback.feedbackCard
             /\ feedback'.healingSentence = feedback.healingSentence
       /\ (lastEvent'.op = "editFeedback" /\ feedback # Null) =>
             feedback'.fullText \in EditedTexts]_vars

C11_Witness ==
    /\ lastEvent.op = "editFeedback"
    /\ step = "feedback"
    /\ feedback # Null
    /\ feedback.feedbackCard = Str(<<"A">>)
    /\ feedback.healingSentence = Str(<<"B">>)
    /\ feedback.fullText = Str(<<"edited">>)

-----------------------------------------------------------------------------
\* Properties of the client methods, checked under SpecClient.

\* C12: when the provider answers generateFeedbackSummary with a payload that
\* parses, with feedbackCard a and healingSentence b, the method resolves with
\* an object that has the four fields of the payload as they are and fullText
\* a, a blank line, b.
C12_FeedbackResultOfPayload ==
    \A a \in CardTexts, b \in SentenceTexts :
        (clMethod = "generateFeedbackSummary" /\ clResponse = Payload(a, b)) =>
            /\ rtPc = "resolved"
            /\ rtSettled = [k |-> "object",
                            feedbackCard |-> Str(<<a>>),
                            healingSentence |-> Str(<<b>>),
                            theme |-> Str(<<"calm dawn">>),
                            designConfig |-> [k |-> "object", json |-> "{light,center,serif}"],
                            fullText |-> Str(<<a, "\n", "\n", b>>)]

C12_Witness ==
    /\ clMethod = "generateFeedbackSummary"
    /\ clResponse = Payload("You did well", "Rest.")
    /\ rtPc = "resolved"
    /\ rtSettled.fullText = Str(<<"You did well", "\n", "\n", "Rest.">>)

\* the result with none of the payload's fields
EmptyFeedback ==
    [k |-> "object", feedbackCard |-> Undefined, healingSentence |-> Undefined,
     theme |-> Undefined, designConfig |-> Undefined,
     fullText |-> Str(<<"undefined", "\n", "\n", "undefined">>)]

-----------------------------------------------------------------------------
\* Properties of the page, continued.

\* C14: at most one of generateRecord, generateFeedback, generateVisual, refine
\* and refineImage is in flight at any time: while one is pending the page lets
\* the user start no other.
C14_AtMostOneInFlight == Len(ops) <= 1

\* C15: a call of one of the five client methods makes its request through one
\* withRetry call with the default of 3 attempts: every attempt issues exactly
\* one request of that method and nothing else does, so a call that meets no
\* failure has issued exactly one request, and no call issues more than 3.
C15_OneRequestThroughRetry ==
    clMethod # "none" =>
        /\ clMethod \in Methods
        /\ rtMax = 3
        /\ rtCalls >= 1
        /\ Len(clRequests) = rtCalls
        /\ Len(clRequests) <= 3
        /\ \A j \in 1..Len(clRequests) : clRequests[j].method = clMethod
        /\ rtFailures = <<>> => Len(clRequests) = 1

C15_Witness ==
    /\ clMethod = "generateCardImage"
    /\ rtPc = "resolved"
    /\ rtMax = 3
    /\ rtFailures = <<>>
    /\ Len(clRequests) = 1
    /\ clRequests[1].method = "generateCardImage"

\* the theme generateVisual works with: the theme of the feedback, or warmth
ThemeOfFeedback ==
    IF feedback # Null /\ feedback.theme.k = "string" /\ feedback.theme.s # <<>>
    THEN feedback.theme.s
    ELSE <<"warmth">>

\* C16: the prompt generateVisual builds and stores has the theme in it for each
\* of the ten styles, and has the portrait directive "aspect ratio 9:16." in it
\* exactly when the selected style is auto (checked under SpecSeq).
C16_PromptOfStyle ==
    [][lastEvent' = Event("goToVisual", "start", 0) =>
          /\ selectedStyle \in {"auto", "cute_animal", "warm_book", "nature_organic",
                                "frieren_fantasy", "professional_calm", "starry_dream",
                                "oil_texture", "minimalist_line", "ghibli_fresh"}
          /\ imagePrompt'.k = "string"
          /\ Includes(imagePrompt'.s, ThemeOfFeedback)
          /\ selectedStyle = "auto" <=> Includes(imagePrompt'.s, <<"aspect ratio 9:16. ">>)]_vars

C16_Witness ==
    /\ lastEvent = Event("goToVisual", "start", 0)
    /\ selectedStyle = "ghibli_fresh"
    /\ feedback # Null
    /\ feedback.theme = Str(<<"calm dawn">>)
    /\ imagePrompt = Str(<<"Studio Ghibli style.", " Theme: ", "calm dawn", ".">>)

\* the invocation that has run alone since it started succeeds in this step
SoloSucceeds(kinds) ==
    /\ solo.slot \in Pending
    /\ ops[solo.slot].kind \in kinds
    /\ ops' = Remove(ops, solo.slot)
    /\ lastEvent'.what = "success"

\* C17: a refine that succeeds, with nothing else done since it started, puts
\* the text the client returned in formalRecord (stage record; "" when the
\* client returned no text) or in feedback.fullText (stage feedback), leaves the
\* stage and every other pipeline field as they were and empties the
\* instruction field (in stage feedback with no feedback, which a reset during
\* a pending call leads to, there is nothing to replace); a refine that fails leaves the pipeline data and the
\* instruction as they were (checked under Spec).
C17_RefineFrame ==
    [][/\ SoloSucceeds({"refine"}) =>
             /\ step' = step
             /\ step \in {"record", "feedback"}
             /\ UNCHANGED <<cardImage, imagePrompt>>
             /\ ~IsBlank(refinementInput)
             /\ refinementInput' = Str(<<>>)
             /\ step = "record" =>
                   /\ formalRecord' = (IF returned'.k = "string" THEN returned' ELSE Str(<<>>))
                   /\ feedback' = feedback
             /\ (step = "feedback" /\ feedback # Null) =>
                   /\ feedback' # Null
                   /\ feedback'.fullText = returned'
                   /\ feedback' = [feedback EXCEPT !.fullText = returned']
                   /\ formalRecord' = formalRecord
             /\ (step = "feedback" /\ feedback = Null) =>
                   UNCHANGED <<feedback, formalRecord>>
       /\ SoloFails({"refine"}) =>
             /\ UNCHANGED pipeVars
             /\ ~IsBlank(refinementInput)
             /\ refinementInput' = refinementInput]_vars

C17_Witness ==
    /\ lastEvent = Event("refine", "success", 1)
    /\ step = "feedback"
    /\ returned = Str(<<"text">>)
    /\ feedback # Null
    /\ feedback.fullText = Str(<<"text">>)
    /\ feedback.feedbackCard = Str(<<"A">>)
    /\ refinementInput = Str(<<>>)

\* C18: generateVisual stores the prompt it built in imagePrompt and asks for
\* the image of that prompt; whenever the image call returns, cardImage is what
\* it returned, a data URI or nothing, and the stage is visual either way; with
\* nothing else done in between imagePrompt is still the prompt that was built
\* (checked under Spec).
C18_VisualStoresPromptAndImage ==
    [][/\ lastEvent' = Event("goToVisual", "start", 0) =>
             /\ imagePrompt'.k = "string"
             /\ Includes(imagePrompt'.s, ThemeOfFeedback)
             /\ ops'[Len(ops')].arg = Str(imagePrompt'.s \o <<".">> \o NoTextSuffix)
       /\ lastEvent' = Event("goToVisual", "success", 1) =>
             /\ cardImage' = returned'
             /\ \/ returned' = Null
                \/ returned'.k = "string" /\ Head(returned'.s) = "data:image/png;base64,"
             /\ step' = "visual"
       /\ SoloSucceeds({"goToVisual"}) =>
             /\ imagePrompt' = imagePrompt
             /\ ops[solo.slot].arg = Str(imagePrompt'.s \o <<".">> \o NoTextSuffix)]_vars

C18_Witness ==
    /\ lastEvent = Event("goToVisual", "success", 1)
    /\ returned = Null
    /\ cardImage = Null
    /\ step = "visual"
    /\ imagePrompt # Null
    /\ Includes(imagePrompt.s, <<"warmth">>)

\* the key a request must carry: the per-call one when it is a non-empty
\* string, else the process default when that is one, else the empty string
IsPresentKey(k) == k.k = "string" /\ k.s # <<>>
CredentialFor(customKey, envKey) ==
    IF IsPresentKey(customKey) THEN customKey
    ELSE IF IsPresentKey(envKey) THEN envKey
    ELSE Str(<<>>)

\* C19: every request, the first of a call and the one of each retry, carries
\* the credential resolved when it is issued: the per-call credential if it is
\* non-empty, else the process default as it is at that moment if non-empty,
\* else the empty string (checked under SpecClient).
C19_CredentialResolvedEachAttempt ==
    [][Len(clRequests') > Len(clRequests) =>
          /\ Len(clRequests') = Len(clRequests) + 1
          /\ clRequests'[Len(clRequests')].apiKey = CredentialFor(clCustomKey', clEnvKey')
          /\ (IsPresentKey(clCustomKey') /\ IsPresentKey(clEnvKey') =>
                 clRequests'[Len(clRequests')].apiKey = clCustomKey')]_vars

\* two attempts of one call made with different defaults in force
C19_Witness ==
    /\ Len(clRequests) = 2
    /\ ~IsPresentKey(clCustomKey)
    /\ clRequests[1].apiKey = Str(<<"env-key">>)
    /\ clRequests[2].apiKey = Str(<<>>)
    /\ clEnvKey = Str(<<>>)

\* C20 as stated: the call of generateFormalRecord that succeeds returned a
\* string to the handler, the empty string when there was no text.
C20_RecordResultIsString ==
    [][lastEvent'.op = "generateRecord" /\ lastEvent'.what = "success" =>
          returned'.k = "string"]_vars

\* C20: generateFormalRecord returns the response text as it is, undefined
\* when there is none; handleGenerateRecord stores that text, or the empty
\* string for undefined, so formalRecord is a string after a generateRecord
\* that succeeds (checked under Spec).
C20_RecordStoredAsString ==
    [][lastEvent'.op = "generateRecord" /\ lastEvent'.what = "success" =>
          /\ returned' \in TextResponses
          /\ formalRecord'.k = "string"
          /\ formalRecord' = IF returned' = Undefined THEN Str(<<>>) ELSE returned'
          /\ step' = "record"]_vars

C20_Witness ==
    /\ lastEvent.op = "generateRecord"
    /\ lastEvent.what = "success"
    /\ returned = Undefined
    /\ formalRecord = Str(<<>>)
    /\ step = "record"

\* C22: when an attempt fails with an error that carries no rate-limit signal
\* after k attempts that failed with rate-limit errors, the wrapper is rejected
\* in that very step with that error: fn has been invoked k + 1 times, k delays
\* were taken, none is added, and nothing more is called or awaited afterwards
\* (checked under SpecRetry).
C22_MixedSequenceRethrowsAtOnce ==
    [][/\ (Len(rtFailures') = Len(rtFailures) + 1
            /\ ~IsRateLimitSample(rtFailures'[Len(rtFailures')])) =>
             /\ \A j \in 1..Len(rtFailures) : IsRateLimitSample(rtFailures[j])
             /\ Len(rtFailures) < rtMax
             /\ rtPc' = "rejected"
             /\ rtSettled' = rtFailures'[Len(rtFailures')]
             /\ rtCalls' = Len(rtFailures) + 1
             /\ rtDelays' = rtDelays
             /\ Len(rtDelays) = Len(rtFailures)
       /\ (rtPc = "rejected" /\ rtPc' # "idle") =>
             rtCalls' = rtCalls /\ rtDelays' = rtDelays]_vars

C22_Witness ==
    /\ rtPc = "rejected"
    /\ rtMax = DefaultMaxRetries
    /\ rtFailures = <<ErrStatus429, ErrServer>>
    /\ rtSettled = ErrServer
    /\ rtCalls = 2
    /\ Len(rtDelays) = 1

\* the rate-limit signal of a thrown value, read off its fields
HasToken429(s) ==
    \E j \in 1..Len(s) : j + 2 <= Len(s) /\ s[j] = "4" /\ s[j + 1] = "2" /\ s[j + 2] = "9"
HasRateLimitSignal(e) ==
    /\ e.k = "object"
    /\ \/ e.status = Num(429)
       \/ e.code = Num(429)
       \/ e.message.k = "string" /\ HasToken429(e.message.s)
       \/ /\ e.message.k = "string"
          /\ \E j \in 1..Len(e.message.s) : e.message.s[j] = "RESOURCE_EXHAUSTED"

\* C23: a failure is treated as a rate limit exactly when its status is 429, or
\* its code is 429, or its message contains "429" or "RESOURCE_EXHAUSTED": with
\* an attempt left it is waited on and retried exactly then, and every other
\* failure, one without status, code and message included, is rethrown at once
\* (checked under SpecRetry).
C23_RateLimitClassification ==
    [][Len(rtFailures') = Len(rtFailures) + 1 =>
          /\ (rtI < rtMax - 1) =>
                (rtPc' = "sleeping" <=> HasRateLimitSignal(rtFailures'[Len(rtFailures')]))
          /\ ~HasRateLimitSignal(rtFailures'[Len(rtFailures')]) =>
                /\ rtPc' = "rejected"
                /\ rtSettled' = rtFailures'[Len(rtFailures')]
                /\ rtDelays' = rtDelays]_vars

C23_Witness ==
    /\ rtPc = "rejected"
    /\ rtMax = DefaultMaxRetries
    /\ rtFailures = <<ErrEmbedded429, ErrCode429Status500, ErrStatusText429>>
    /\ rtSettled = ErrStatusText429
    /\ Len(rtDelays) = 2

\* C24: when every invocation of fn settles and every backoff timer fires, a
\* call of the wrapper with maxRetries >= 1 that is running or waiting is
\* eventually resolved or rejected, and when it is, fn has been invoked at
\* least once and at most maxRetries times and at most maxRetries - 1 delays
\* were taken (checked under SpecRetryFair).
C24_EventuallySettles ==
    /\ [](rtPc \in {"calling", "sleeping"} => <>(rtPc \in {"resolved", "rejected"}))
    /\ []((rtPc \in {"resolved", "rejected"} /\ rtMax >= 1) =>
            /\ rtCalls >= 1
            /\ rtCalls <= rtMax
            /\ Len(rtDelays) <= rtMax - 1
            /\ Len(rtDelays) = rtCalls - 1)

C24_Witness ==
    /\ rtPc = "resolved"
    /\ rtMax = DefaultMaxRetries
    /\ rtCalls = DefaultMaxRetries
    /\ Len(rtDelays) = DefaultMaxRetries - 1

\* C21: in a session in which every failure of a client call is the
\* provider's authentication error, the handler of the operation that failed
\* shows the reconnect message, marks the key as not connected and leaves the
\* stage as it was.
C21_AuthFailureAsksToReconnect ==
    [][(lastEvent'.what = "failure" /\ lastEvent'.op \in ClientKinds) =>
          /\ error' = MsgKeyExpired
          /\ hasKey' = FALSE
          /\ step' = step]_vars

\* the flag each operation sets before its call and the control that starts it
GeneratingKinds == {"generateRecord", "goToFeedback", "goToVisual"}
FlagOf(kind, generating, refining, refiningImage) ==
    CASE kind \in GeneratingKinds -> generating
      [] kind = "refine" -> refining
      [] kind = "refineImage" -> refiningImage

\* C25: the step in which an operation ends, in success or in failure, clears
\* the flag the operation set; when every client call settles no flag stays
\* set for ever: each is clear again and again; and after an operation that ran alone has
\* failed, the control that started it is enabled again in the same stage
\* (checked under SpecFair).
C25_FlagsEventuallyCleared ==
    /\ [][(lastEvent'.what \in {"success", "failure"} /\ lastEvent'.op \in ClientKinds) =>
             ~FlagOf(lastEvent'.op, isGenerating', isRefining', isRefiningImage')]_vars
    /\ [][SoloFails({"generateRecord"}) =>
             step' = "initial" /\ ~isGenerating' /\ Truthy(Str(Trim(input'.s)))]_vars
    /\ [][SoloFails({"goToFeedback"}) => step' = "record" /\ ~isGenerating']_vars
    /\ [][SoloFails({"goToVisual"}) => step' = "feedback" /\ ~isGenerating']_vars
    /\ [][SoloFails({"refine"}) =>
             /\ step' \in {"record", "feedback"}
             /\ ~isRefining'
             /\ Truthy(Str(Trim(refinementInput'.s)))]_vars
    /\ [][SoloFails({"refineImage"}) =>
             /\ step' = "visual"
             /\ Truthy(imagePrompt')
             /\ ~isRefiningImage'
             /\ Truthy(Str(Trim(imageRefinementInput'.s)))]_vars
    /\ []<>~isGenerating
    /\ []<>~isRefining
    /\ []<>~isRefiningImage

C25_Witness ==
    /\ lastEvent = Event("goToVisual", "failure", 1)
    /\ ~isGenerating
    /\ step = "feedback"
    /\ error = MsgVisualFailed
    /\ ops = <<>>

\* C26: in every state the stage agrees with the data derived so far: in the
\* feedback stage there is a feedback object, in the visual stage a feedback
\* object and an image prompt, and in the initial stage formalRecord is empty
\* and feedback, imagePrompt and cardImage are absent.
C26_StageConsistentWithData ==
    /\ step = "feedback" => feedback # Null
    /\ step = "visual" => feedback # Null /\ imagePrompt # Null
    /\ step = "initial" =>
          /\ formalRecord = Str(<<>>)
          /\ feedback = Null
          /\ imagePrompt = Null
          /\ cardImage = Null

\* the cleared initial stage
Cleared ==
    /\ step = "initial"
    /\ formalRecord = Str(<<>>)
    /\ feedback = Null
    /\ imagePrompt = Null
    /\ cardImage = Null

\* C27: in the cleared initial stage the completion of a call other than
\* generateRecord's, which can only be one that was in flight when reset was
\* clicked, changes neither the stage nor formalRecord, feedback, imagePrompt
\* or cardImage.
C27_ClearedUntilNewRecord ==
    [][(/\ Cleared
        /\ lastEvent'.what \in {"success", "failure", "prompt"}
        /\ lastEvent'.op # "generateRecord") => pipeVars' = pipeVars]_vars

\* C28: when refineImagePrompt returns no prompt or an empty one, refineImage
\* ends there: no image request follows, imagePrompt, cardImage and the error
\* message stay as they are and the instruction is cleared; when it returns a
\* prompt, that prompt is stored, cardImage is cleared in the same step, before
\* the image request, and the image request is made for the refined prompt
\* (checked under Spec).
C28_RefineImageOnPrompt ==
    [][/\ lastEvent' = Event("refineImage", "success", 1) =>
             /\ ~Truthy(returned')
             /\ Len(ops') = Len(ops) - 1
             /\ \A s \in 1..Len(ops') : ops'[s] \in {ops[j] : j \in Pending}
             /\ imagePrompt' = imagePrompt
             /\ cardImage' = cardImage
             /\ error' = error
             /\ imageRefinementInput' = Str(<<>>)
       /\ lastEvent' = Event("refineImage", "prompt", 1) =>
             /\ returned'.k = "string" /\ returned'.s # <<>>
             /\ imagePrompt' = returned'
             /\ cardImage' = Null
             /\ imageRefinementInput' = imageRefinementInput
             /\ Len(ops') = Len(ops)
             /\ \E s \in Pending :
                   /\ ops[s].kind = "refineImage" /\ ops[s].phase = 1
                   /\ ops'[s].kind = "refineImage" /\ ops'[s].phase = 2
                   /\ ops'[s].arg = Str(returned'.s \o <<".">> \o NoTextSuffix)]_vars

C28_Witness ==
    /\ lastEvent = Event("refineImage", "success", 1)
    /\ returned = Str(<<>>)
    /\ imageRefinementInput = Str(<<>>)
    /\ imagePrompt # Null
    /\ cardImage # Null
    /\ error = Null
    /\ step = "visual"

=============================================================================
